---- MODULE Spec2Model ----
(***************************************************************************)
(* Model of the RunPod glue scripts around the Chandra OCR model:          *)
(*   client_pdf_ocr_example.py  submit / status polling loop / persistence *)
(*   runpod_example.py          save_results                               *)
(*   runpod_handler.py          file decoder and handler                   *)
(*   deploy_runpod.py           RunPodDeployer.deploy                      *)
(* One process runs one of the programs; `prog` says which.                *)
(***************************************************************************)
EXTENDS Integers, Sequences, FiniteSets, TLC

\* ------------------------------------------------------------------ bounds
\* whole seconds a slow HTTP request of the client takes (a fast one: 0)
MaxLatency == 1
\* largest number of entries of a list field of the handler's input
MaxItems == 2
\* largest token_count of one page result
MaxTokens == 2
\* largest number of deploy calls of one run, all deployers together
MaxDeploys == 2
\* last second the deployment clock reaches
MaxClock == 1

\* largest number of pages of one result object or one PDF
MaxPages == 2
\* largest number of save_results calls of one run
MaxCalls == 2
\* largest number of status queries of one of two concurrent jobs
MaxPolls == 2

\* ------------------------------------------------------- program constants
\* client_pdf_ocr_example.py: for iteration in range(150)
MaxIterations == 150
\* client_pdf_ocr_example.py: if elapsed > 300
MaxWait == 300
\* client_pdf_ocr_example.py: time.sleep(2)
PollInterval == 2

VARIABLES
    prog,        \* which program this process runs
    \* ---- client_pdf_ocr_example.py
    pc,          \* position of the client script
    job_id,      \* result.get("id") of the submit response
    start_time,  \* time.time() read before the loop
    now,         \* the wall clock, whole seconds
    iteration,   \* loop variable of range(150)
    elapsed,     \* int(time.time() - start_time) of the current iteration
    status,      \* result.get("status") of the last status response
    submits,     \* POST /run requests issued
    polls,       \* GET /status requests issued
    files,       \* files the client has written
    report,      \* outcome of the wait the script has printed
    raised,      \* the uncaught exception that ended the script
    submitResp,  \* what the submit request met
    pollErrors,  \* status queries that failed in transport
    sawOnlyNonTerminal, \* every status response so far was non-terminal
    \* ---- runpod_example.py
    ex_pc,       \* position inside / outside save_results
    ex_result,   \* the result argument of the current call
    ex_dir,      \* the output_dir argument of the current call
    ex_i,        \* loop variable of enumerate(results)
    ex_calls,    \* save_results calls made
    ex_written,  \* files the current call has written
    ex_raised,   \* the exception that ended the current call
    dirs,        \* directories that exist
    fs,          \* files that exist
    \* ---- runpod_handler.py / runpod_handler_simplified.py
    h_variant,   \* "full" (runpod_handler) or "simplified"
    h_pc,        \* position of the handler
    event,       \* the fields present in event["input"]
    files_data,  \* the field the input was taken from and its length
    page_range,  \* job_input.get("page_range", None)
    h_i,         \* loop variable of enumerate(files_data)
    all_images,  \* page images collected so far
    results,     \* page results of model.generate so far
    h_return,    \* the object the handler returned
    h_last,      \* the last process_file_input call and what it produced
    tmp_files,   \* temporary PDF files that exist
    inferences,  \* model.generate calls made
    \* ---- deploy_runpod.py
    endpoints,   \* the remote's serverless endpoints, in listing order
    templates,   \* the remote's templates
    d_clock,     \* int(time.time())
    d_pc,        \* position of each deployer inside deploy
    d_args,      \* arguments of each deployer's current deploy call
    d_existing,  \* id of existing_endpoint, 0 for None
    d_template,  \* template_id returned by create_template
    d_before,    \* number of endpoints of that name when the call began
    d_results,   \* what each deployer's deploy calls returned, in order
    malformed,   \* some response so far lacked its data
    \* ---- two concurrent runs of client_pdf_ocr_example.py
    j_pc,        \* position of each job's lifecycle
    j_out,       \* the "output" of each job's COMPLETED response
    j_polls,     \* GET /status requests of each job
    disk         \* for each output file the job whose result it holds

clientVars == <<pc, job_id, start_time, now, iteration, elapsed, status,
                submits, polls, files, report, raised, submitResp,
                pollErrors, sawOnlyNonTerminal>>

exampleVars == <<ex_pc, ex_result, ex_dir, ex_i, ex_calls, ex_written,
                 ex_raised, dirs, fs>>

handlerVars == <<h_variant, h_pc, event, files_data, page_range, h_i,
                 all_images, results, h_return, h_last, tmp_files,
                 inferences>>

deployVars == <<endpoints, templates, d_clock, d_pc, d_args, d_existing,
                d_template, d_before, d_results, malformed>>

jobsVars == <<j_pc, j_out, j_polls, disk>>

nonClientVars == <<exampleVars, handlerVars, deployVars, jobsVars>>

nonExampleVars == <<clientVars, handlerVars, deployVars, jobsVars>>

nonHandlerVars == <<clientVars, exampleVars, deployVars, jobsVars>>

nonDeployVars == <<clientVars, exampleVars, handlerVars, jobsVars>>

nonJobsVars == <<clientVars, exampleVars, handlerVars, deployVars>>

vars == <<prog, clientVars, exampleVars, handlerVars, deployVars, jobsVars>>

\* ================================================================ client
\* Responses the submit request can meet (lines 89-92).
SubmitResponses == {"ok", "transport_error", "non2xx_json", "non2xx_text"}

\* Status strings of a status response (line 111); OTHER stands for any
\* string the loop has no branch for, None included.
Statuses == {"IN_QUEUE", "IN_PROGRESS", "COMPLETED", "FAILED", "OTHER"}

\* Shapes of the "output" member of a status response (lines 123-139).
Outputs == {"results", "error", "null"}

\* Time a request takes (requests.get has timeout=10, line 109).
Latencies == {0, MaxLatency}

JSON_FILE == "ocr_result_clientside_pdf.json"
TXT_FILE == "ocr_result_clientside_pdf.txt"

\* LoopExit with the break of the COMPLETED branch left out.
LoopExit_NoBreakOnCompleted(st, el) ==
    IF st = "FAILED" THEN "failed"
    ELSE IF el > MaxWait THEN "timeout"
    ELSE "continue"

\* LoopExit with the break of the FAILED branch left out.
LoopExit_NoBreakOnFailed(st, el) ==
    IF st = "COMPLETED" THEN "completed"
    ELSE IF el > MaxWait THEN "timeout"
    ELSE "continue"

\* The branch the loop body takes once the status is known (lines 117-174).
LoopExit(st, el) ==
    IF st = "COMPLETED" THEN "completed"
    ELSE IF st = "FAILED" THEN "failed"
    ELSE IF el > MaxWait THEN "timeout"
    ELSE "continue"

\* FilesWritten with the result dumped for every terminal status.
FilesWritten_AnyTerminal(st, out) ==
    IF st \notin {"COMPLETED", "FAILED"} THEN {}
    ELSE IF out = "null" THEN {}
    ELSE IF out = "error" THEN {JSON_FILE}
    ELSE {JSON_FILE, TXT_FILE}

\* Files the COMPLETED branch has written when it ends (lines 123-143):
\* output.get on None raises before any write; a dict without "results"
\* is dumped to the JSON file and then output["results"] raises.
FilesWritten(st, out) ==
    IF st # "COMPLETED" THEN {}
    ELSE IF out = "null" THEN {}
    ELSE IF out = "error" THEN {JSON_FILE}
    ELSE {JSON_FILE, TXT_FILE}

\* The exception the COMPLETED branch raises, if any (lines 124, 139).
PersistRaises(st, out) ==
    IF st # "COMPLETED" THEN "none"
    ELSE IF out = "null" THEN "AttributeError"
    ELSE IF out = "error" THEN "KeyError"
    ELSE "none"

\* What requests.post(...); response.json(); result.get("id") leave behind
\* (lines 89-92): there is no raise_for_status, so a non-2xx response with
\* a JSON body is read like a success and yields job_id None.
SubmitRaises(r) ==
    IF r = "transport_error" THEN "RequestException"
    ELSE IF r = "non2xx_text" THEN "JSONDecodeError"
    ELSE "none"

SubmitJobId(r) == IF r = "ok" THEN "job-1" ELSE "None"

ClientInit ==
    /\ pc = "submit"
    /\ job_id = "unset"
    /\ start_time = 0
    /\ now = 0
    /\ iteration = 0
    /\ elapsed = 0
    /\ status = "unset"
    /\ submits = 0
    /\ polls = 0
    /\ files = {}
    /\ report = "none"
    /\ raised = "none"
    /\ submitResp = "unset"
    /\ pollErrors = 0
    /\ sawOnlyNonTerminal = TRUE

\* Lines 89-103: submit the batch, read the job id, start the clock.
Submit(r) ==
    /\ prog = "client"
    /\ pc = "submit"
    /\ submits' = submits + 1
    /\ submitResp' = r
    /\ IF SubmitRaises(r) # "none"
       THEN /\ raised' = SubmitRaises(r)
            /\ pc' = "crashed"
            /\ UNCHANGED <<job_id, start_time>>
       ELSE /\ job_id' = SubmitJobId(r)
            /\ start_time' = now
            /\ pc' = "poll"
            /\ UNCHANGED raised
    /\ UNCHANGED <<prog, now, iteration, elapsed, status, polls, files,
                   report, pollErrors, sawOnlyNonTerminal, nonClientVars>>

\* Lines 106-109 when requests.get (or response.json) raises: nothing
\* catches it, the script ends with the traceback.
PollTransportError(lat) ==
    /\ prog = "client"
    /\ pc = "poll"
    /\ elapsed' = now - start_time
    /\ polls' = polls + 1
    /\ pollErrors' = pollErrors + 1
    /\ now' = now + lat
    /\ raised' = "RequestException"
    /\ pc' = "crashed"
    /\ UNCHANGED <<prog, job_id, start_time, iteration, status, submits,
                   files, report, submitResp, sawOnlyNonTerminal,
                   nonClientVars>>

\* Lines 106-174: one loop body whose status query is answered.
Poll(st, out, lat) ==
    /\ prog = "client"
    /\ pc = "poll"
    /\ elapsed' = now - start_time
    /\ polls' = polls + 1
    /\ now' = now + lat
    /\ status' = st
    /\ sawOnlyNonTerminal' =
          (sawOnlyNonTerminal /\ st \notin {"COMPLETED", "FAILED"})
    /\ files' = files \cup FilesWritten(st, out)
    /\ LET exit == LoopExit(st, elapsed')
           exc == PersistRaises(st, out)
       IN  /\ raised' = exc
           /\ report' = IF exit = "continue" THEN report ELSE exit
           /\ pc' = IF exc # "none" THEN "crashed"
                    ELSE IF exit = "continue" THEN "sleep"
                    ELSE "done"
    /\ UNCHANGED <<prog, job_id, start_time, iteration, submits, submitResp,
                   pollErrors, nonClientVars>>

\* The loop header as while True.
AfterSleep_WhileTrue(it) == "poll"

\* Line 105: for iteration in range(150) after the body of iteration it.
AfterSleep(it) == IF it + 1 < MaxIterations THEN "poll" ELSE "done"

\* Line 177 and the step of range(150): sleep, then the next iteration or
\* the end of the loop.
Sleep ==
    /\ prog = "client"
    /\ pc = "sleep"
    /\ now' = now + PollInterval
    /\ iteration' = iteration + 1
    /\ pc' = AfterSleep(iteration)
    /\ UNCHANGED <<prog, job_id, start_time, elapsed, status, submits,
                   polls, files, report, raised, submitResp, pollErrors,
                   sawOnlyNonTerminal, nonClientVars>>

ClientNext ==
    \/ \E r \in SubmitResponses : Submit(r)
    \/ \E lat \in Latencies : PollTransportError(lat)
    \/ \E st \in Statuses, out \in Outputs, lat \in Latencies :
          Poll(st, out, lat)
    \/ Sleep

\* ======================================================= runpod_example
\* Names the model gives to extracted images (keys of res["images"]).
ImageNames == {"a.png", "b.png"}

\* A page entry of result["results"]: the names of its extracted images.
PageEntries == SUBSET ImageNames

RECURSIVE SeqsUpTo(_, _)
SeqsUpTo(S, n) ==
    IF n = 0 THEN {<< >>}
    ELSE LET shorter == SeqsUpTo(S, n - 1)
         IN  shorter \cup {Append(q, x) : q \in shorter, x \in S}

\* Result objects handed to save_results: with or without an "error" key,
\* with a "results" list.
ResultObjects ==
    [error : BOOLEAN, results : SeqsUpTo(PageEntries, MaxPages)]

NoResult == [error |-> FALSE, results |-> << >>]

OutputDirs == {"output", "output/example1"}

Parent(d) == IF d = "output/example1" THEN "output" ELSE "."

\* Path.mkdir(exist_ok=True), parents left False (line 130): succeeds when
\* the directory exists or its parent does.
MkdirOk(d, existing) == d \in existing \/ Parent(d) \in existing

\* Line 132: the early return on an error object.
SkipsSaving(result) == result.error

File(d, kind, page, name) ==
    [dir |-> d, kind |-> kind, page |-> page, name |-> name]

\* Files one loop body writes for the page at 1-based index k
\* (lines 140-168).
PageFiles(d, k, entry) ==
    {File(d, "md", k, "result"), File(d, "html", k, "result"),
     File(d, "metadata", k, "result")}
    \cup {File(d, "image", 0, n) : n \in entry}

ExampleInit ==
    /\ ex_pc = "idle"
    /\ ex_result = NoResult
    /\ ex_dir = "output"
    /\ ex_i = 0
    /\ ex_calls = 0
    /\ ex_written = {}
    /\ ex_raised = "none"
    /\ dirs \in {{"."}, {".", "output"}, {".", "output", "output/example1"}}
    /\ fs = {}

\* Lines 129-136: create the directory, return early on an error object,
\* otherwise enter the loop over the pages.
SaveResults(result, d) ==
    /\ prog = "example"
    /\ ex_pc = "idle"
    /\ ex_calls < MaxCalls
    /\ ex_calls' = ex_calls + 1
    /\ ex_result' = result
    /\ ex_dir' = d
    /\ ex_i' = 0
    /\ ex_written' = {}
    /\ IF MkdirOk(d, dirs)
       THEN /\ dirs' = dirs \cup {d}
            /\ ex_raised' = "none"
            /\ ex_pc' = IF SkipsSaving(result) \/ result.results = << >>
                        THEN "idle" ELSE "loop"
       ELSE /\ ex_raised' = "FileNotFoundError"
            /\ ex_pc' = "idle"
            /\ UNCHANGED dirs
    /\ UNCHANGED <<prog, fs, nonExampleVars>>

\* Lines 138-169: one body of the loop over the pages.
SavePage ==
    /\ prog = "example"
    /\ ex_pc = "loop"
    /\ LET written == PageFiles(ex_dir, ex_i + 1, ex_result.results[ex_i + 1])
       IN  /\ fs' = fs \cup written
           /\ ex_written' = ex_written \cup written
    /\ ex_i' = ex_i + 1
    /\ ex_pc' = IF ex_i + 1 < Len(ex_result.results) THEN "loop" ELSE "idle"
    /\ UNCHANGED <<prog, ex_result, ex_dir, ex_calls, ex_raised, dirs,
                   nonExampleVars>>

ExampleNext ==
    \/ \E result \in ResultObjects, d \in OutputDirs : SaveResults(result, d)
    \/ SavePage

\* ====================================================== runpod_handler
\* The input fields the two handlers look at.
Fields == {"file", "files", "image", "images"}

\* The chain with the legacy fields tested first.
FieldOrder_LegacyFirst(variant) ==
    IF variant = "full" THEN <<"image", "images", "file", "files">>
    ELSE <<"images", "image">>

\* The order of the if/elif chain (runpod_handler.py lines 151-158,
\* runpod_handler_simplified.py lines 148-151).
FieldOrder(variant) ==
    IF variant = "full" THEN <<"file", "files", "image", "images">>
    ELSE <<"image", "images">>

IsListField(f) == f \in {"files", "images"}

\* page_range values: absent (None) or a list of 0-based indices.
None == [given |-> FALSE, pages |-> << >>]

PageRanges ==
    {None} \cup {[given |-> TRUE, pages |-> q] :
                    q \in {<< >>, <<0, 2>>, <<1>>}}

\* event["input"] as far as the dispatch reads it: the fields present.
Events == SUBSET Fields

Present(ev, f) == f \in ev

\* An event whose "input" is no mapping, or that has no get at all.
NotAMapping == {"<not a mapping>"}

\* Lengths the value of a field can have: a single-valued field is wrapped
\* into a list of one (lines 152, 156).
Lengths(f) == IF IsListField(f) THEN 0..MaxItems ELSE {1}

RECURSIVE FirstPresent(_, _, _)
FirstPresent(ev, order, k) ==
    IF k > Len(order) THEN "none"
    ELSE IF Present(ev, order[k]) THEN order[k]
    ELSE FirstPresent(ev, order, k + 1)

\* Lines 150-162: the field the input is taken from.
Dispatch(variant, ev) == FirstPresent(ev, FieldOrder(variant), 1)

\* One entry of the input: the prefix of the string, the kind of the
\* bytes behind it as filetype.guess sees them, the pages of a PDF.
Schemes == {"http://", "https://", "data:", ""}

Kinds == {"pdf", "png", "zip", "unknown"}

RasterKinds == {"png", "jpg", "jpeg", "webp", "tiff", "bmp", "gif"}

\* Page counts of the PDFs tried: one page, and enough pages for [0, 2].
PdfSizes == {1, 3}

Items ==
    {it \in [scheme : Schemes, kind : Kinds, npages : PdfSizes] :
        it.kind # "pdf" => it.npages = 1}

\* token_count values of a page result.
TokenCounts == {1, MaxTokens}

\* What the environment does to one entry: nothing, a failed download or
\* undecodable base64, a failed write of the temporary file, a failed
\* rasterization or image load.
Faults == {"none", "transfer", "tmp_write", "load"}

\* IsUrl without the https:// test of line 78.
IsUrl_HttpOnly(it) == it.scheme = "http://"

\* Line 78: download exactly for the two URL prefixes.
IsUrl(it) == it.scheme \in {"http://", "https://"}

RECURSIVE Range0(_)
Range0(n) == IF n = 0 THEN << >> ELSE Append(Range0(n - 1), n - 1)

InSeq(x, q) == \E k \in 1..Len(q) : q[k] = x

\* chandra.input.load_pdf_images(path, page_range): every page for None,
\* otherwise the pages of the document whose index is in the subset.
LoadPdfImages(n, pr) ==
    IF ~pr.given THEN Range0(n)
    ELSE SelectSeq(Range0(n), LAMBDA i : InSeq(i, pr.pages))

\* Line 56: page_range if page_range else None.
PassedRange(pr) == IF pr.given /\ pr.pages # << >> THEN pr ELSE None

Raise(leak, fetched) ==
    [raised |-> TRUE, pages |-> << >>, leaked |-> leak, fetched |-> fetched]

Return(pages, fetched) ==
    [raised |-> FALSE, pages |-> pages, leaked |-> FALSE,
     fetched |-> fetched]

\* Lines 45-61: the temporary file is created and written before the try
\* whose finally removes it.
ProcessPdfBytes(n, pr, fault, fetched) ==
    IF fault = "tmp_write" THEN Raise(TRUE, fetched)
    ELSE IF fault = "load" THEN Raise(FALSE, fetched)
    ELSE Return(LoadPdfImages(n, PassedRange(pr)), fetched)

\* Lines 69-101.
ProcessFileInput(it, pr, fault) ==
    IF fault = "transfer" THEN Raise(FALSE, IsUrl(it))
    ELSE IF it.kind = "unknown" THEN Raise(FALSE, IsUrl(it))
    ELSE IF it.kind = "pdf"
         THEN ProcessPdfBytes(it.npages, pr, fault, IsUrl(it))
    ELSE IF it.kind \in RasterKinds
         THEN IF fault = "load" THEN Raise(FALSE, IsUrl(it))
              ELSE Return(<<0>>, IsUrl(it))
    ELSE Raise(FALSE, IsUrl(it))

\* runpod_handler_simplified.py lines 71-98: no type detection, whatever
\* PIL cannot open raises ValueError.
ProcessImageInput(it, fault) ==
    IF fault = "transfer" THEN Raise(FALSE, IsUrl(it))
    ELSE IF it.kind \in RasterKinds /\ fault # "load"
         THEN Return(<<0>>, IsUrl(it))
    ELSE Raise(FALSE, IsUrl(it))

Decode(variant, it, pr, fault) ==
    IF variant = "full" THEN ProcessFileInput(it, pr, fault)
    ELSE ProcessImageInput(it, fault)

NoReturn ==
    [kind |-> "none", item |-> 0, results |-> << >>, total_pages |-> 0,
     total_tokens |-> 0, traceback |-> FALSE]

ErrorObject(item, tb) ==
    [kind |-> "error", item |-> item, results |-> << >>, total_pages |-> 0,
     total_tokens |-> 0, traceback |-> tb]

RECURSIVE SumTokens(_)
SumTokens(q) ==
    IF q = << >> THEN 0 ELSE q[1].token_count + SumTokens(Tail(q))

\* OutputResults with "page_number": idx.
OutputResults_ZeroBased(res) ==
    [k \in 1..Len(res) |->
        [page_number |-> k - 1, img |-> res[k].img,
         token_count |-> res[k].token_count]]

\* Lines 216-244: the serializable results and the totals.
OutputResults(res) ==
    [k \in 1..Len(res) |->
        [page_number |-> k, img |-> res[k].img,
         token_count |-> res[k].token_count]]

SuccessObject(res) ==
    [kind |-> "results", item |-> 0, results |-> OutputResults(res),
     total_pages |-> Len(OutputResults(res)),
     total_tokens |-> SumTokens(OutputResults(res)), traceback |-> FALSE]

\* The position in the message of line 183 without the + 1.
ItemPosition_ZeroBased(i) == i

\* Line 183 (simplified: line 177): f"... {i+1}: ...".
ItemPosition(i) == i + 1

\* The outer except without the inference loop in its try.
AfterException_InferenceEscapes(where) ==
    IF where = "infer" THEN "raised" ELSE "returned"

\* Lines 246-253: except Exception returns the error object; the try
\* spans the whole body of the handler.
AfterException(where) == "returned"

NoCall ==
    [item |-> [scheme |-> "", kind |-> "unknown", npages |-> 1],
     fault |-> "none", out |-> Return(<< >>, FALSE), calls |-> 0]

HandlerInit ==
    /\ h_variant \in {"full", "simplified"}
    /\ h_pc = "idle"
    /\ event = {}
    /\ files_data = [field |-> "none", len |-> 0]
    /\ page_range = None
    /\ h_i = 0
    /\ all_images = << >>
    /\ results = << >>
    /\ h_return = NoReturn
    /\ h_last = NoCall
    /\ tmp_files = 0
    /\ inferences = 0

\* Lines 146-173: pick the input field, read the parameters.
HandlerStart(ev, pr, n) ==
    /\ prog = "handler"
    /\ h_pc = "idle"
    /\ event' = ev
    /\ LET f == Dispatch(h_variant, ev)
       IN  IF f = "none"
           THEN /\ h_return' = ErrorObject(0, FALSE)
                /\ h_pc' = "returned"
                /\ UNCHANGED <<files_data, page_range>>
           ELSE /\ n \in Lengths(f)
                /\ files_data' = [field |-> f, len |-> n]
                /\ page_range' = IF h_variant = "full" THEN pr ELSE None
                /\ h_pc' = IF n = 0 THEN "infer" ELSE "files"
                /\ UNCHANGED h_return
    /\ UNCHANGED <<prog, h_variant, h_i, all_images, results, h_last,
                   tmp_files, inferences, nonHandlerVars>>

\* Lines 147-172 raise: the event has no get or its "input" is no
\* mapping (line 147, 151), or the value of the list field has no len
\* (line 172). The outer except answers.
StartRaises(ev) ==
    /\ prog = "handler"
    /\ h_pc = "idle"
    /\ event' = ev
    /\ IF ev = NotAMapping
       THEN UNCHANGED files_data
       ELSE /\ IsListField(Dispatch(h_variant, ev))
            /\ files_data' = [field |-> Dispatch(h_variant, ev), len |-> 0]
    /\ h_return' = ErrorObject(0, TRUE)
    /\ h_pc' = AfterException("start")
    /\ UNCHANGED <<prog, h_variant, page_range, h_i, all_images, results,
                   h_last, tmp_files, inferences, nonHandlerVars>>

\* Lines 176-184: one body of the loop over the entries.
ProcessFile(it, fault) ==
    /\ prog = "handler"
    /\ h_pc = "files"
    /\ LET out == Decode(h_variant, it, page_range, fault)
       IN  /\ h_last' = [item |-> it, fault |-> fault, out |-> out,
                         calls |-> h_last.calls + 1]
           /\ tmp_files' = tmp_files + (IF out.leaked THEN 1 ELSE 0)
           /\ IF out.raised
              THEN /\ h_return' = ErrorObject(ItemPosition(h_i), FALSE)
                   /\ h_pc' = "returned"
                   /\ UNCHANGED <<all_images, h_i>>
              ELSE /\ all_images' = all_images \o
                         [k \in 1..Len(out.pages) |->
                             [item |-> h_i + 1, page |-> out.pages[k]]]
                   /\ h_i' = h_i + 1
                   /\ h_pc' = IF h_i + 1 < files_data.len THEN "files"
                              ELSE "infer"
                   /\ UNCHANGED h_return
    /\ UNCHANGED <<prog, h_variant, event, files_data, page_range, results,
                   inferences, nonHandlerVars>>

\* Lines 199-213: model.generate on the next page.
Infer(tokens) ==
    /\ prog = "handler"
    /\ h_pc = "infer"
    /\ Len(results) < Len(all_images)
    /\ inferences' = inferences + 1
    /\ results' = Append(results, [img |-> all_images[Len(results) + 1],
                                   token_count |-> tokens])
    /\ UNCHANGED <<prog, h_variant, h_pc, event, files_data, page_range,
                   h_i, all_images, h_return, h_last, tmp_files,
                   nonHandlerVars>>

\* Lines 210, 246-253: model.generate raises, the outer except answers.
InferRaises ==
    /\ prog = "handler"
    /\ h_pc = "infer"
    /\ Len(results) < Len(all_images)
    /\ inferences' = inferences + 1
    /\ h_return' = ErrorObject(0, TRUE)
    /\ h_pc' = AfterException("infer")
    /\ UNCHANGED <<prog, h_variant, event, files_data, page_range, h_i,
                   all_images, results, h_last, tmp_files,
                   nonHandlerVars>>

\* Lines 215-244: build the answer.
Assemble ==
    /\ prog = "handler"
    /\ h_pc = "infer"
    /\ Len(results) = Len(all_images)
    /\ h_return' = SuccessObject(results)
    /\ h_pc' = "returned"
    /\ UNCHANGED <<prog, h_variant, event, files_data, page_range, h_i,
                   all_images, results, h_last, tmp_files,
                   inferences, nonHandlerVars>>

HandlerNext ==
    \/ \E ev \in Events, pr \in PageRanges, n \in 0..MaxItems :
          HandlerStart(ev, pr, n)
    \/ \E ev \in Events \cup {NotAMapping} : StartRaises(ev)
    \/ \E it \in Items, fault \in Faults : ProcessFile(it, fault)
    \/ \E tokens \in TokenCounts : Infer(tokens)
    \/ InferRaises
    \/ Assemble

\* ======================================================== deploy_runpod
\* Two deployers (two runs of the script) against one account.
Deployers == {"A", "B"}

\* endpoint_name of main (line 342) and the name of some other endpoint.
NAME == "chandra-ocr"
OTHER_NAME == "other"

\* Defaults of create_endpoint (lines 120-123).
Endpoint(id, name, template_id, workers_max) ==
    [id |-> id, name |-> name, templateId |-> template_id,
     gpuIds |-> "AMPERE_16", workersMin |-> 0, workersMax |-> workers_max,
     idleTimeout |-> 5]

\* Template names: "<name>-template" (line 286) has stamp -1,
\* "<name>-template-<int(time.time())>" (line 251) has the second.
Template(id, stamp) == [id |-> id, stamp |-> stamp]

\* What a GraphQL request can meet: a full answer, a non-success HTTP
\* status (raise_for_status raises), a 200 answer without the data.
Responses == {"ok", "http_error", "no_data"}

\* workers_max arguments tried (default 3, line 214).
WorkersMaxValues == {0, 3}

\* Lines 57-58: a body without data / myself / serverlessEndpoints reads
\* as the empty list.
ListEndpoints(resp, eps) == IF resp = "ok" THEN eps ELSE << >>

RECURSIVE FindByName(_, _, _)
\* Lines 60-66: the id of the first endpoint of that name, 0 for None.
FindByName(eps, name, k) ==
    IF k > Len(eps) THEN 0
    ELSE IF eps[k].name = name THEN eps[k].id
    ELSE FindByName(eps, name, k + 1)

Named(eps, name) == {k \in 1..Len(eps) : eps[k].name = name}

\* Lines 251, 286.
TemplateStamp(existing, clock) == IF existing # 0 THEN clock ELSE -1

\* An Optional argument: None, or a value.
Absent == [given |-> FALSE, value |-> 0]

Some(v) == [given |-> TRUE, value |-> v]

\* The optional arguments of update_endpoint by the key they are sent
\* under (lines 182-191).
UpdateKeys == {"name", "templateId", "workersMin", "workersMax",
               "idleTimeout"}

\* update_input built with truthiness tests (if workers_max: ...).
UpdateInput_Truthy(endpoint_id, a) ==
    [k \in {"id"} \cup {f \in UpdateKeys : a[f].given /\ a[f].value # 0} |->
        IF k = "id" THEN endpoint_id ELSE a[k].value]

\* Lines 180-191: update_input holds id and every argument that is not
\* None.
UpdateInput(endpoint_id, a) ==
    [k \in {"id"} \cup {f \in UpdateKeys : a[f].given} |->
        IF k = "id" THEN endpoint_id ELSE a[k].value]

\* Lines 261-265: deploy passes template_id and workers_max only.
DeployUpdateArgs(template_id, workers_max) ==
    [f \in UpdateKeys |->
        IF f = "templateId" THEN Some(template_id)
        ELSE IF f = "workersMax" THEN Some(workers_max)
        ELSE Absent]

\* saveEndpoint with an id: the fields of the input replace the
\* endpoint's, the others stay.
SaveEndpoint(e, input) ==
    [f \in DOMAIN e |-> IF f \in DOMAIN input THEN input[f] ELSE e[f]]

\* Lines 180-191 as called at lines 261-265: id, templateId, workersMax.
ApplyUpdate(eps, id, template_id, workers_max) ==
    [k \in 1..Len(eps) |->
        IF eps[k].id = id
        THEN SaveEndpoint(eps[k],
                UpdateInput(id, DeployUpdateArgs(template_id, workers_max)))
        ELSE eps[k]]

\* Lines 203-206: update_endpoint returns whatever the body holds, and
\* deploy does not look at it; only raise_for_status can raise.
UpdateRaises(resp) == resp = "http_error"

\* Lines 155-159, 303: create_endpoint raises without saveEndpoint data.
CreateRaises(resp) == resp # "ok"

\* create_template swallowing every failure and returning None.
TemplateRaises_Never(resp) == FALSE

\* TemplateRaises without the check of template_id (lines 110-111).
TemplateRaises_OnlyHttpError(resp) == resp = "http_error"

\* Lines 106-111: create_template raises without a template id.
TemplateRaises(resp) == resp # "ok"

\* Lines 107-108: template_data.get("id"), 0 for None.
TemplateId(resp, tpls) == IF resp = "ok" THEN Len(tpls) + 1 ELSE 0

Result(kind, id, args, template_id, before, after, pointed) ==
    [kind |-> kind, id |-> id, update |-> args.update,
     template |-> template_id, before |-> before, after |-> after,
     pointed |-> pointed]

\* The arguments of a deploy call that the model follows: update_if_exists
\* and workers_max (lines 214, 218).
Args(upd, w) == [update |-> upd, workers_max |-> w]

NoArgs == Args(TRUE, 3)

InitialRemotes ==
    {<< >>,
     <<Endpoint(1, NAME, 1, 3)>>,
     <<Endpoint(1, OTHER_NAME, 1, 3)>>,
     <<Endpoint(1, OTHER_NAME, 1, 3), Endpoint(2, NAME, 2, 3)>>}

DeployInit ==
    /\ endpoints \in InitialRemotes
    /\ templates = [k \in 1..Len(endpoints) |-> Template(k, -1)]
    /\ d_clock = 0
    /\ d_pc = [d \in Deployers |-> "idle"]
    /\ d_args = [d \in Deployers |-> NoArgs]
    /\ d_existing = [d \in Deployers |-> 0]
    /\ d_template = [d \in Deployers |-> 0]
    /\ d_before = [d \in Deployers |-> 0]
    /\ d_results = [d \in Deployers |-> << >>]
    /\ malformed = FALSE

\* deploy calls begun so far.
Started ==
    LET n(d) == Len(d_results[d]) + (IF d_pc[d] = "idle" THEN 0 ELSE 1)
    IN  n("A") + n("B")

Finish(d, result) ==
    /\ d_results' = [d_results EXCEPT ![d] = Append(@, result)]
    /\ d_pc' = [d_pc EXCEPT ![d] = "idle"]

\* Lines 241-280: look the endpoint up; return at once when it exists and
\* update_if_exists is false.
Lookup(d, upd, w, resp) ==
    /\ prog = "deploy"
    /\ d_pc[d] = "idle"
    /\ Started < MaxDeploys
    /\ d_args' = [d_args EXCEPT ![d] = Args(upd, w)]
    /\ d_before' = [d_before EXCEPT ![d] = Cardinality(Named(endpoints, NAME))]
    /\ malformed' = (malformed \/ resp = "no_data")
    /\ LET before == Cardinality(Named(endpoints, NAME))
           found == FindByName(ListEndpoints(resp, endpoints), NAME, 1)
       IN  IF resp = "http_error"
           THEN /\ Finish(d, Result("raised", 0, Args(upd, w), 0, before,
                                    before, FALSE))
                /\ UNCHANGED d_existing
           ELSE IF found # 0 /\ ~upd
           THEN /\ Finish(d, Result("skipped", found, Args(upd, w), 0,
                                    before, before, FALSE))
                /\ UNCHANGED d_existing
           ELSE /\ d_existing' = [d_existing EXCEPT ![d] = found]
                /\ d_pc' = [d_pc EXCEPT ![d] = "template"]
                /\ UNCHANGED d_results
    /\ UNCHANGED <<prog, endpoints, templates, d_clock, d_template,
                   nonDeployVars>>

\* Lines 250-258 and 286-293: create the template.
CreateTemplate(d, resp) ==
    /\ prog = "deploy"
    /\ d_pc[d] = "template"
    /\ malformed' = (malformed \/ resp = "no_data")
    /\ IF TemplateRaises(resp)
       THEN /\ Finish(d, Result("raised", 0, d_args[d], 0, d_before[d],
                                Cardinality(Named(endpoints, NAME)), FALSE))
            /\ UNCHANGED <<templates, d_template>>
       ELSE /\ templates' =
                  IF resp = "ok"
                  THEN Append(templates,
                          Template(TemplateId(resp, templates),
                                   TemplateStamp(d_existing[d], d_clock)))
                  ELSE templates
            /\ d_template' =
                  [d_template EXCEPT ![d] = TemplateId(resp, templates)]
            /\ d_pc' = [d_pc EXCEPT ![d] = "endpoint"]
            /\ UNCHANGED d_results
    /\ UNCHANGED <<prog, endpoints, d_clock, d_args, d_existing, d_before,
                   nonDeployVars>>

\* Lines 296-325: create the endpoint and return it.
CreateEndpoint(d, resp) ==
    /\ prog = "deploy"
    /\ d_pc[d] = "endpoint"
    /\ d_existing[d] = 0
    /\ malformed' = (malformed \/ resp = "no_data")
    /\ IF CreateRaises(resp)
       THEN /\ Finish(d, Result("raised", 0, d_args[d], d_template[d],
                                d_before[d],
                                Cardinality(Named(endpoints, NAME)), FALSE))
            /\ UNCHANGED endpoints
       ELSE LET id == Len(endpoints) + 1
                eps == Append(endpoints,
                          Endpoint(id, NAME, d_template[d],
                                   d_args[d].workers_max))
            IN  /\ endpoints' = eps
                /\ Finish(d, Result("created", id, d_args[d], d_template[d],
                                    d_before[d],
                                    Cardinality(Named(eps, NAME)), TRUE))
    /\ UNCHANGED <<prog, templates, d_clock, d_args, d_existing, d_template,
                   d_before, nonDeployVars>>

\* Lines 260-272: re-point the existing endpoint and return it.
UpdateEndpoint(d, resp) ==
    /\ prog = "deploy"
    /\ d_pc[d] = "endpoint"
    /\ d_existing[d] # 0
    /\ malformed' = (malformed \/ resp = "no_data")
    /\ LET eps == IF resp = "ok"
                  THEN ApplyUpdate(endpoints, d_existing[d], d_template[d],
                                   d_args[d].workers_max)
                  ELSE endpoints
           pointed == \E k \in 1..Len(eps) :
                         /\ eps[k].id = d_existing[d]
                         /\ eps[k].templateId = d_template[d]
       IN  /\ endpoints' = eps
           /\ IF UpdateRaises(resp)
              THEN Finish(d, Result("raised", 0, d_args[d], d_template[d],
                                    d_before[d],
                                    Cardinality(Named(eps, NAME)), FALSE))
              ELSE Finish(d, Result("updated", d_existing[d], d_args[d],
                                    d_template[d], d_before[d],
                                    Cardinality(Named(eps, NAME)), pointed))
    /\ UNCHANGED <<prog, templates, d_clock, d_args, d_existing, d_template,
                   d_before, nonDeployVars>>

\* The clock of int(time.time()) moves on.
Tick ==
    /\ prog = "deploy"
    /\ d_clock < MaxClock
    /\ d_clock' = d_clock + 1
    /\ UNCHANGED <<prog, endpoints, templates, d_pc, d_args, d_existing,
                   d_template, d_before, d_results, malformed,
                   nonDeployVars>>

DeployNext ==
    \/ \E d \in Deployers, upd \in BOOLEAN, w \in WorkersMaxValues,
          resp \in Responses :
          Lookup(d, upd, w, resp)
    \/ \E d \in Deployers, resp \in Responses : CreateTemplate(d, resp)
    \/ \E d \in Deployers, resp \in Responses : CreateEndpoint(d, resp)
    \/ \E d \in Deployers, resp \in Responses : UpdateEndpoint(d, resp)
    \/ Tick

\* ================================================================ specs
\* The programs that are not running stay in one fixed initial state.
\* =========================== two lifecycles of client_pdf_ocr_example
\* Two jobs whose lifecycles (lines 89-177) run at the same time in one
\* working directory.
Jobs == {1, 2}

\* No job's result: the file does not exist.
NoJob == 0

JobsInit ==
    /\ j_pc = [j \in Jobs |-> "submit"]
    /\ j_out = [j \in Jobs |-> "unset"]
    /\ j_polls = [j \in Jobs |-> 0]
    /\ disk = [f \in {JSON_FILE, TXT_FILE} |-> NoJob]

\* Lines 89-103 of one job.
JobSubmit(j, r) ==
    /\ prog = "jobs"
    /\ j_pc[j] = "submit"
    /\ j_pc' = [j_pc EXCEPT ![j] = IF SubmitRaises(r) # "none"
                                   THEN "crashed" ELSE "poll"]
    /\ UNCHANGED <<prog, j_out, j_polls, disk, nonJobsVars>>

\* Lines 106-130 and 168-177 of one job: one status query and the branch
\* on its status, up to the first write of the COMPLETED branch.
JobPoll(j, st, out) ==
    /\ prog = "jobs"
    /\ j_pc[j] = "poll"
    /\ j_polls[j] < MaxPolls
    /\ j_polls' = [j_polls EXCEPT ![j] = @ + 1]
    /\ j_out' = [j_out EXCEPT ![j] = IF st = "COMPLETED" THEN out ELSE @]
    /\ j_pc' = [j_pc EXCEPT ![j] =
                  IF LoopExit(st, 0) = "completed"
                  THEN IF JSON_FILE \in FilesWritten(st, out)
                       THEN "json" ELSE "crashed"
                  ELSE IF LoopExit(st, 0) = "failed" THEN "done"
                  ELSE "poll"]
    /\ UNCHANGED <<prog, disk, nonJobsVars>>

\* Lines 133-135 of one job: open(JSON_FILE, "w") and json.dump.
JobWriteJson(j) ==
    /\ prog = "jobs"
    /\ j_pc[j] = "json"
    /\ disk' = [disk EXCEPT ![JSON_FILE] = j]
    /\ j_pc' = [j_pc EXCEPT ![j] =
                  IF TXT_FILE \in FilesWritten("COMPLETED", j_out[j])
                  THEN "txt" ELSE "crashed"]
    /\ UNCHANGED <<prog, j_out, j_polls, nonJobsVars>>

\* Lines 137-143, 156 of one job: open(TXT_FILE, "w"), write, break.
JobWriteTxt(j) ==
    /\ prog = "jobs"
    /\ j_pc[j] = "txt"
    /\ disk' = [disk EXCEPT ![TXT_FILE] = j]
    /\ j_pc' = [j_pc EXCEPT ![j] = "done"]
    /\ UNCHANGED <<prog, j_out, j_polls, nonJobsVars>>

JobsNext ==
    \/ \E j \in Jobs, r \in SubmitResponses : JobSubmit(j, r)
    \/ \E j \in Jobs, st \in Statuses, out \in Outputs : JobPoll(j, st, out)
    \/ \E j \in Jobs : JobWriteJson(j)
    \/ \E j \in Jobs : JobWriteTxt(j)

Parked ==
    /\ (prog # "example" => dirs = {"."})
    /\ (prog # "handler" => h_variant = "full")
    /\ (prog # "deploy" => endpoints = << >>)

InitAll ==
    /\ ClientInit
    /\ ExampleInit
    /\ HandlerInit
    /\ DeployInit
    /\ JobsInit
    /\ Parked

InitClient == prog = "client" /\ InitAll

SpecClient == InitClient /\ [][ClientNext]_vars

\* The script always takes its next step: requests.post and requests.get
\* carry timeouts (lines 89, 109) and time.sleep(2) returns.
SpecClientLive == InitClient /\ [][ClientNext]_vars /\ WF_vars(ClientNext)

InitExample == prog = "example" /\ InitAll

SpecExample == InitExample /\ [][ExampleNext]_vars

\* Either script: the two places where a job's output is persisted.
InitPersist == InitClient \/ InitExample

NextPersist == ClientNext \/ ExampleNext

SpecPersist == InitPersist /\ [][NextPersist]_vars

InitHandler == prog = "handler" /\ InitAll

SpecHandler == InitHandler /\ [][HandlerNext]_vars

InitDeploy == prog = "deploy" /\ InitAll

SpecDeploy == InitDeploy /\ [][DeployNext]_vars

InitJobs == prog = "jobs" /\ InitAll

SpecJobs == InitJobs /\ [][JobsNext]_vars

\* ================================================================ claims
InLoop == pc \in {"poll", "sleep"}

SubmitFailed ==
    submitResp \in {"transport_error", "non2xx_json", "non2xx_text"}

\* C1: once a status query has reported COMPLETED the wait is over with
\* outcome COMPLETED, and from then on no status query and no submit is
\* issued, whatever non-terminal responses came before.
C1_CompletedEndsWait ==
    /\ [](status = "COMPLETED" => (~InLoop /\ report = "completed"))
    /\ [][status = "COMPLETED" => (polls' = polls /\ submits' = submits)]_vars

C1_Witness ==
    /\ status = "COMPLETED"
    /\ polls = 3
    /\ pc = "done"

\* C2: the first status query that reports FAILED ends the wait with a
\* failure outcome; no further status query is issued, the job is not
\* submitted again and nothing is persisted.
C2_FailedEndsWait ==
    /\ [](status = "FAILED" =>
            (pc = "done" /\ report = "failed" /\ submits = 1))
    /\ [][status = "FAILED" => (polls' = polls /\ submits' = submits)]_vars

C2_Witness ==
    /\ status = "FAILED"
    /\ polls = 3
    /\ pc = "done"

\* C3 (as claimed): when every status query returned a non-terminal status,
\* the wait ends with TIMED_OUT after exactly MaxWait / PollInterval
\* status queries.
C3_Original ==
    (pc = "done" /\ sawOnlyNonTerminal) =>
        (report = "timeout" /\ polls = MaxWait \div PollInterval)

\* C4 (as claimed): whenever the loop is left without COMPLETED or FAILED
\* having been observed, a timeout outcome has been reported.
C4_Original ==
    (pc = "done" /\ polls > 0 /\ status \notin {"COMPLETED", "FAILED"}) =>
        report = "timeout"

\* C5 (as claimed): a status query that fails in transport does not end the
\* wait: the loop goes on to the sleep before the next poll and the start
\* of the timeout clock is left alone.
C5_Original ==
    [][pollErrors' > pollErrors =>
          (pc' = "sleep" /\ start_time' = start_time)]_vars

\* C6 (as claimed): a submit that failed in transport or got a non-2xx
\* response is followed by no status query.
C6_Original == SubmitFailed => polls = 0

C7_WitnessErrorObject ==
    /\ prog = "example"
    /\ ex_calls = 2
    /\ ex_result.error
    /\ Len(ex_result.results) = 2
    /\ ex_raised = "none"
    /\ fs # {}

\* C8 (as claimed): for a PDF the decoder tells the three page-range cases
\* apart: [] gives no page, an absent page_range gives every page, and
\* [0, 2] gives pages 0 and 2 in that order.
C8_Original ==
    (/\ h_variant = "full"
     /\ h_last.calls > 0
     /\ h_last.item.kind = "pdf"
     /\ ~h_last.out.raised) =>
        /\ page_range = [given |-> TRUE, pages |-> << >>] =>
              h_last.out.pages = << >>
        /\ page_range = None =>
              h_last.out.pages = Range0(h_last.item.npages)
        /\ (page_range = [given |-> TRUE, pages |-> <<0, 2>>]
            /\ h_last.item.npages = 3) =>
              h_last.out.pages = <<0, 2>>

AllIdle == \A d \in Deployers : d_pc[d] = "idle"

SomeReturned ==
    \E d \in Deployers : \E k \in 1..Len(d_results[d]) :
        d_results[d][k].kind # "raised"

\* C9 (as claimed, and here only for runs in which every response was
\* well-formed): once the deploy calls for the name are over, in sequence
\* or interleaved, the remote holds exactly one endpoint of that name.
C9_Original ==
    (AllIdle /\ SomeReturned /\ ~malformed) =>
        Cardinality(Named(endpoints, NAME)) = 1

Alone(d) ==
    \A e \in Deployers \ {d} : d_results[e] = << >> /\ d_pc[e] = "idle"

\* Two successive deploy calls of d that both returned, both with
\* update_if_exists=true, the name existing when each began.
TwoUpdates(d, k) ==
    /\ k + 1 <= Len(d_results[d])
    /\ \A r \in {d_results[d][k], d_results[d][k + 1]} :
          r.update /\ r.before > 0 /\ r.kind # "raised"

\* C10 (as claimed): two such calls return the same endpoint id, each has
\* created a template of its own and re-pointed the existing endpoint at
\* it, and neither has created an endpoint.
C10_Original ==
    \A d \in Deployers : \A k \in 1..MaxDeploys :
        (Alone(d) /\ TwoUpdates(d, k)) =>
            LET r1 == d_results[d][k]
                r2 == d_results[d][k + 1]
            IN  /\ r1.id = r2.id
                /\ r1.kind = "updated" /\ r2.kind = "updated"
                /\ r1.template # r2.template
                /\ r1.pointed /\ r2.pointed
                /\ r1.after = r1.before /\ r2.after = r2.before

\* C11 (as claimed): a template created by the update path never gets the
\* name of a template created earlier.
C11_Original ==
    \A i \in 1..Len(templates) : \A j \in 1..Len(templates) :
        (i < j /\ templates[j].stamp >= 0) =>
            templates[i].stamp # templates[j].stamp

IsTemplate(id, stamp) ==
    \E k \in 1..Len(templates) :
        templates[k].id = id /\ templates[k].stamp = stamp

Returns(d) == Len(d_results'[d]) = Len(d_results[d]) + 1

Returned(d) == d_results'[d][Len(d_results'[d])]

\* C12: on the create path the create-endpoint mutation is issued only
\* after create_template has returned the id of a template it created,
\* the new endpoint carries that id as templateId, and the id deploy
\* returns is the id of the endpoint that this call appended.
C12_CreateOrder ==
    /\ [](\A d \in Deployers :
            (d_pc[d] = "endpoint" /\ d_existing[d] = 0) =>
                IsTemplate(d_template[d], -1))
    /\ [][\A d \in Deployers :
            (Returns(d) /\ Returned(d).kind = "created") =>
                /\ Len(endpoints') = Len(endpoints) + 1
                /\ SubSeq(endpoints', 1, Len(endpoints)) = endpoints
                /\ endpoints'[Len(endpoints')].id = Returned(d).id
                /\ endpoints'[Len(endpoints')].name = NAME
                /\ endpoints'[Len(endpoints')].templateId = d_template[d]
                /\ Returned(d).template = d_template[d]
                /\ templates' = templates]_vars

C12_Witness ==
    \E d \in Deployers : \E k \in 1..Len(d_results[d]) :
        /\ d_results[d][k].kind = "created"
        /\ d_results[d][k].before = 0
        /\ IsTemplate(d_results[d][k].template, -1)

\* C13 (as claimed): a deploy call with update_if_exists=false on a name
\* that exists issues no mutation (it never gets to the template or the
\* endpoint step) and returns the existing endpoint's id.
C13_Original ==
    \A d \in Deployers :
        /\ (~d_args[d].update /\ d_before[d] > 0) => d_pc[d] = "idle"
        /\ \A k \in 1..Len(d_results[d]) :
              LET r == d_results[d][k]
              IN  (~r.update /\ r.before > 0 /\ r.kind # "raised") =>
                      (r.kind = "skipped" /\ r.after = r.before)

\* C14 (as claimed): a response that lacks its data makes deploy fail: the
\* step that receives the first such response ends a deploy call by
\* raising.
C14_Original ==
    [][(~malformed /\ malformed') =>
          \E d \in Deployers : Returns(d) /\ Returned(d).kind = "raised"]_vars

\* The field the if/elif chains of the two handlers take, written out.
ExpectedField(variant, ev) ==
    IF variant = "full"
    THEN IF "file" \in ev THEN "file"
         ELSE IF "files" \in ev THEN "files"
         ELSE IF "image" \in ev THEN "image"
         ELSE IF "images" \in ev THEN "images"
         ELSE "none"
    ELSE IF "image" \in ev THEN "image"
         ELSE IF "images" \in ev THEN "images"
         ELSE "none"

\* C15: the handler takes its input from the first present field in the
\* order file, files, image, images (image, images in the simplified
\* handler) whatever later fields are present, and with none of them
\* present it returns an error object having decoded nothing and run no
\* inference.
C15_FirstPresentField ==
    h_pc # "idle" =>
        /\ files_data.field = ExpectedField(h_variant, event)
        /\ files_data.field = "none" =>
              /\ h_pc = "returned"
              /\ h_return.kind = "error"
              /\ h_last.calls = 0
              /\ inferences = 0
              /\ all_images = << >>

C15_Witness ==
    /\ h_variant = "full"
    /\ event = {"files", "image", "images"}
    /\ files_data.field = "files"
    /\ h_last.calls > 0

C15_WitnessNone ==
    /\ h_variant = "simplified"
    /\ event = {"file", "files"}
    /\ h_pc = "returned"
    /\ h_return = ErrorObject(0, FALSE)

\* C16: when the decoding of an input item fails the handler returns at
\* once an error object naming the 1-based position of that item, with
\* no result in it, and no inference has run, also for the pages of the
\* items decoded before it.
C16_DecodeFailureAborts ==
    h_last.out.raised =>
        /\ h_pc = "returned"
        /\ h_return = ErrorObject(h_last.calls, FALSE)
        /\ h_return.item = h_i + 1
        /\ h_return.results = << >>
        /\ results = << >>
        /\ inferences = 0

C16_Witness ==
    /\ h_last.out.raised
    /\ h_last.calls = 2
    /\ all_images # << >>
    /\ h_pc = "returned"

\* C17: the handler never lets an exception out: it ends by returning
\* either a success object or an error object, and it returns a success
\* object only when every item was decoded and every page went through
\* inference.
C17_AlwaysAnswers ==
    /\ h_pc \in {"idle", "files", "infer", "returned"}
    /\ h_pc = "returned" <=> h_return.kind # "none"
    /\ h_return.kind \in {"none", "results", "error"}
    /\ h_return.kind = "error" => h_return.results = << >>
    /\ h_return.kind = "results" =>
          /\ ~h_return.traceback
          /\ ~h_last.out.raised
          /\ h_i = files_data.len
          /\ Len(h_return.results) = Len(all_images)
          /\ inferences = Len(all_images)

C17_Witness ==
    /\ h_pc = "returned"
    /\ h_return = ErrorObject(0, TRUE)
    /\ inferences = 2
    /\ Len(results) = 1

C17_WitnessMalformedEvent ==
    /\ h_pc = "returned"
    /\ event = NotAMapping
    /\ h_return = ErrorObject(0, TRUE)

\* C18 (as claimed): no temporary PDF file is left behind by
\* process_pdf_bytes, whether it returned or raised.
C18_Original == tmp_files = 0

\* C19 (as claimed): with two job lifecycles running at the same time,
\* a job that ended after persisting its result finds both output files
\* holding its own output, whatever the other job did meanwhile.
C19_Original ==
    \A j \in Jobs :
        (j_pc[j] = "done" /\ j_out[j] = "results") =>
            (disk[JSON_FILE] = j /\ disk[TXT_FILE] = j)

RECURSIVE ImageCount(_)
ImageCount(pages) ==
    IF pages = << >> THEN 0
    ELSE Cardinality(pages[1]) + ImageCount(Tail(pages))

Written(kind) == Cardinality({f \in ex_written : f.kind = kind})

\* C20 (as claimed): a save_results call on a result without error and
\* with N pages writes N markdown files, N HTML files, N metadata records
\* and one image file per extracted image over all pages, whatever the
\* names of the extracted images.
C20_Original ==
    (ex_pc = "idle" /\ ex_calls > 0 /\ ex_raised = "none"
        /\ ~SkipsSaving(ex_result)) =>
        /\ Written("md") = Len(ex_result.results)
        /\ Written("html") = Len(ex_result.results)
        /\ Written("metadata") = Len(ex_result.results)
        /\ Written("image") = ImageCount(ex_result.results)

\* C21 (as claimed): a save_results call creates its output directory
\* when it is absent, also when the parent of the directory is absent,
\* and does not fail on it.
C21_Original ==
    ex_calls > 0 => (ex_raised = "none" /\ ex_dir \in dirs)

\* The formats line 96 lists.
ListedRaster == {"png", "jpg", "jpeg", "webp", "tiff", "bmp", "gif"}

\* C22: process_file_input downloads exactly the strings that start with
\* http:// or https:// and base64-decodes every other string; bytes of an
\* undetectable kind, or of a kind that is neither pdf nor a listed
\* raster format, end in an exception without a page image; a raster
\* image that loads gives exactly one page.
C22_DecoderBranches ==
    (h_variant = "full" /\ h_last.calls > 0) =>
        /\ h_last.out.fetched <=>
              h_last.item.scheme \in {"http://", "https://"}
        /\ h_last.item.kind \notin ({"pdf"} \cup ListedRaster) =>
              h_last.out.raised
        /\ h_last.out.raised => h_last.out.pages = << >>
        /\ (h_last.item.kind \in ListedRaster /\ h_last.fault = "none") =>
              (~h_last.out.raised /\ Len(h_last.out.pages) = 1)

C22_Witness ==
    /\ h_variant = "full"
    /\ h_last.calls > 0
    /\ h_last.item.scheme = "https://"
    /\ h_last.item.kind = "png"
    /\ h_last.out.fetched
    /\ Len(h_last.out.pages) = 1

C22_WitnessUnsupported ==
    /\ h_variant = "full"
    /\ h_last.calls > 0
    /\ h_last.item.scheme = "data:"
    /\ h_last.item.kind = "zip"
    /\ h_last.fault = "none"
    /\ h_last.out.raised

\* The exit code of client_pdf_ocr_example.py: the script has no sys.exit,
\* so it ends with 0 when it runs off its last line (after either break
\* and after the loop ran out) and with 1 on an uncaught exception.
ExitCode(p) == IF p = "crashed" THEN 1 ELSE 0

\* C23 (as claimed): the client script exits with 0 exactly when its run
\* succeeded (the job ended COMPLETED and its result was persisted) and
\* with 1 when the job ended FAILED, timed out or a request failed.
C23_Original ==
    pc \in {"done", "crashed"} =>
        (ExitCode(pc) = 0 <=> (report = "completed" /\ raised = "none"))

\* C24: the wait loop ends whatever the status responses are: the script
\* issues at most 150 status queries, is inside the loop only with
\* iteration below 150, and eventually is past the loop for good.
C24_WaitTerminates ==
    /\ [](polls <= MaxIterations)
    /\ [](InLoop => (iteration < MaxIterations /\ polls <= iteration + 1))
    /\ <>[](~InLoop /\ pc # "submit")

C24_Witness ==
    /\ pc = "done"
    /\ polls = MaxIterations
    /\ report = "none"
    /\ status = "OTHER"

\* C25: when create_template fails, on a non-success status or on a
\* response without a template id, the deploy call ends there by raising:
\* the step leaves the endpoints and the templates as they were, and a
\* deploy call is at its endpoint mutation only with the id of a template
\* that exists, on the create path and on the update path.
C25_TemplateFailureStops ==
    /\ [](\A d \in Deployers :
            d_pc[d] = "endpoint" =>
                \E k \in 1..Len(templates) :
                    /\ templates[k].id = d_template[d]
                    /\ (d_existing[d] = 0 <=> templates[k].stamp = -1))
    /\ [][\A d \in Deployers :
            (d_pc[d] = "template" /\ d_pc'[d] # "template"
                /\ templates' = templates) =>
                /\ Returns(d)
                /\ Returned(d).kind = "raised"
                /\ d_pc'[d] = "idle"
                /\ endpoints' = endpoints]_vars

C25_Witness ==
    /\ Started = 1
    /\ malformed
    /\ \A d \in Deployers : d_pc[d] = "idle"
    /\ \E d \in Deployers :
          /\ Len(d_results[d]) = 1
          /\ d_results[d][1].kind = "raised"
          /\ d_results[d][1].template = 0
          /\ d_results[d][1].update
          /\ d_results[d][1].before > 0
          /\ d_results[d][1].after = d_results[d][1].before

\* Argument lists of update_endpoint tried: each optional argument None
\* or 0.
OptionalArgs == [UpdateKeys -> {Absent, Some(0)}]

\* C26: the input update_endpoint sends holds the id and exactly the
\* arguments that are not None, a 0 included; an update by deploy changes
\* the templateId and the workersMax of the endpoint it updates and
\* nothing else of it, and no other endpoint.
C26_UpdateSendsGivenFields ==
    [][\A d \in Deployers :
        (Returns(d) /\ Returned(d).kind = "updated" /\ Returned(d).pointed) =>
            /\ \A a \in OptionalArgs :
                  LET sent == UpdateInput(d_existing[d], a)
                  IN  /\ DOMAIN sent =
                            {"id"} \cup {f \in UpdateKeys : a[f] # Absent}
                      /\ sent["id"] = d_existing[d]
                      /\ \A f \in UpdateKeys :
                            a[f] # Absent => sent[f] = a[f].value
            /\ Len(endpoints') = Len(endpoints)
            /\ \A k \in 1..Len(endpoints) :
                  IF endpoints[k].id = Returned(d).id
                  THEN /\ endpoints'[k].templateId = d_template[d]
                       /\ endpoints'[k].workersMax = d_args[d].workers_max
                       /\ \A f \in {"id", "name", "gpuIds", "workersMin",
                                    "idleTimeout"} :
                             endpoints'[k][f] = endpoints[k][f]
                  ELSE endpoints'[k] = endpoints[k]]_vars

C26_Witness ==
    \E d \in Deployers : \E k \in 1..Len(d_results[d]) :
        /\ d_results[d][k].kind = "updated"
        /\ d_results[d][k].pointed
        /\ \E e \in 1..Len(endpoints) :
              /\ endpoints[e].id = d_results[d][k].id
              /\ endpoints[e].name = NAME
              /\ endpoints[e].workersMax = 0
              /\ endpoints[e].templateId = d_results[d][k].template

RECURSIVE TokensOfFirst(_)
\* token_count of the first k page results of model.generate, added up.
TokensOfFirst(k) ==
    IF k = 0 THEN 0 ELSE results[k].token_count + TokensOfFirst(k - 1)

\* C27: in a success object total_pages is the length of results and the
\* number of page images loaded, total_tokens is the sum of the entries'
\* token_count, the k-th entry has page_number k and is the result of the
\* k-th page image, and the page images are in the order of the input
\* items and, within an item, of its pages.
C27_SuccessObjectTotals ==
    h_return.kind = "results" =>
        /\ h_return.total_pages = Len(h_return.results)
        /\ h_return.total_pages = Len(all_images)
        /\ h_return.total_tokens = TokensOfFirst(Len(results))
        /\ \A k \in 1..Len(h_return.results) :
              /\ h_return.results[k].page_number = k
              /\ h_return.results[k].img = all_images[k]
              /\ h_return.results[k].token_count = results[k].token_count
        /\ \A i \in 1..Len(all_images) : \A j \in 1..Len(all_images) :
              i < j =>
                  \/ all_images[i].item < all_images[j].item
                  \/ /\ all_images[i].item = all_images[j].item
                     /\ all_images[i].page < all_images[j].page

C27_Witness ==
    /\ h_return.kind = "results"
    /\ h_return.total_pages = 3
    /\ all_images[1].item = 1
    /\ all_images[3].item = 2
    /\ h_return.results[1].token_count # h_return.results[3].token_count
    /\ h_return.total_tokens = 2 * MaxTokens + 1

====
